---- MODULE Spec2Model ----
(***************************************************************************)
(* PeerBazaar backend (src/main.py, src/schemas.py): the email OTP flow    *)
(* (request_otp, verify_otp, _send_email, _generate_code) and the two      *)
(* domain-restricted create endpoints (create_student, create_listing).    *)
(*                                                                         *)
(* Strings that the code inspects character by character (emails, codes)   *)
(* are sequences of one-character strings.  HTTP details that the code     *)
(* only ever emits are TLA+ strings.  Time is in minutes.                  *)
(***************************************************************************)
EXTENDS Integers, Sequences, FiniteSets, TLC

(* ------------------------------ bounds --------------------------------- *)

\* OTP records inserted in one run (each insert takes a fresh _id).
MaxIds == 2
\* Documents in the CRUD collections (student, listing) together.
MaxDocs == 1
\* The clock stops advancing once it has reached MaxTime.
MaxTime == 20
\* Minutes by which one clock step advances.
TickStep == 10
\* Server processes sharing the store in the interleaved specification.
NumWorkers == 2
\* The minute-by-minute clock of SpecClock stops once it has reached MaxClock.
MaxClock == 12
\* Half-width of the windows of integers the code generator is sampled at.
DrawWindow == 20

(* ------------------------- program constants --------------------------- *)

\* EMAIL_DOMAIN = "satiengg.in"
EMAIL_DOMAIN == <<"s","a","t","i","e","n","g","g",".","i","n">>

\* OTPRecord.new(..., ttl_minutes: int = 10)
TtlMinutes == 10

\* _generate_code: random.randint(0, 999999), rendered with width 6
CodeMax == 999999
CodeWidth == 6

None == "None"

(* --------------------------- string functions -------------------------- *)

UpperChars == <<"A","B","C","D","E","F","G","H","I","J","K","L","M",
                "N","O","P","Q","R","S","T","U","V","W","X","Y","Z">>
LowerChars == <<"a","b","c","d","e","f","g","h","i","j","k","l","m",
                "n","o","p","q","r","s","t","u","v","w","x","y","z">>
Whitespace == {" ", "\t", "\n", "\r"}

\* str.lower() on one character
LowerChar(c) ==
    IF \E i \in 1..Len(UpperChars) : UpperChars[i] = c
    THEN LowerChars[CHOOSE i \in 1..Len(UpperChars) : UpperChars[i] = c]
    ELSE c

\* str.lower()
Lower(s) == [i \in 1..Len(s) |-> LowerChar(s[i])]

\* str.lstrip()
RECURSIVE LStrip(_)
LStrip(s) ==
    IF s # <<>> /\ Head(s) \in Whitespace THEN LStrip(Tail(s)) ELSE s

\* str.rstrip()
RECURSIVE RStrip(_)
RStrip(s) ==
    IF s # <<>> /\ s[Len(s)] \in Whitespace
    THEN RStrip(SubSeq(s, 1, Len(s) - 1))
    ELSE s

\* str.strip()
Strip(s) == RStrip(LStrip(s))

\* str.endswith(suffix)
EndsWith(s, suffix) ==
    /\ Len(suffix) <= Len(s)
    /\ SubSeq(s, Len(s) - Len(suffix) + 1, Len(s)) = suffix

\* email.split("@")[0]: the text before the first "@" (all of it if none)
RECURSIVE LocalPart(_)
LocalPart(s) ==
    IF s = <<>> \/ Head(s) = "@" THEN <<>> ELSE <<Head(s)>> \o LocalPart(Tail(s))

\* payload.email.lower().strip()
NormalizeEmail(raw) == Strip(Lower(raw))

\* f"@{EMAIL_DOMAIN}"
DomainSuffix == <<"@">> \o EMAIL_DOMAIN

\* the domain check with the "@" left out of the suffix
IsAllowed_NoAt(email) == EndsWith(email, EMAIL_DOMAIN)

\* email.endswith(f"@{EMAIL_DOMAIN}")
IsAllowed(email) == EndsWith(email, DomainSuffix)

(* ----------------------------- code generator -------------------------- *)

DigitChars == <<"0","1","2","3","4","5","6","7","8","9">>

\* decimal digits of a natural number, most significant first ("0" for 0)
RECURSIVE Decimal(_)
Decimal(n) ==
    IF n < 10 THEN <<DigitChars[n + 1]>>
    ELSE Decimal(n \div 10) \o <<DigitChars[(n % 10) + 1]>>

\* a rendering without the zero fill of the format
ZeroPad_None(s, width) == s

\* left padding with "0" up to a minimum width (never truncates)
RECURSIVE ZeroPad(_, _)
ZeroPad(s, width) == IF Len(s) >= width THEN s ELSE ZeroPad(<<"0">> \o s, width)

\* f"{n:06d}"
Format06d(n) == ZeroPad(Decimal(n), CodeWidth)

\* the integers random.randint(0, CodeMax) is sampled at in this model
GenInts == {0, CodeMax}

\* the integers the generator is rendered at in SpecCode: a window around
\* every power of ten up to the end of randint's range, so that every number
\* of digits from one to six, and both ends of the range, occur
DrawSamples ==
    UNION {{n \in (p - DrawWindow)..(p + DrawWindow) : 0 <= n /\ n <= CodeMax} :
            p \in {0, 10, 100, 1000, 10000, 100000, CodeMax + 1}}

\* _generate_code() for the drawn integer n
GenerateCode(n) == Format06d(n)

(* -------------------------------- inputs -------------------------------- *)

AliceMixed == <<"A">> \o DomainSuffix
BobLower   == <<"b">> \o DomainSuffix
BobGmail   == <<"b","@","g","m","a","i","l",".","c","o","m">>
\* a foreign domain that merely ends with the allowed domain's name
EveLookalike == <<"e","@","x">> \o EMAIL_DOMAIN
AlicePadded == <<" ","A","@","S","A","T","I","E","N","G","G",".","I","N"," ">>

\* values an EmailStr field can carry (OTPRequest.email, OTPVerify.email)
EmailStrInputs == {AliceMixed, BobLower, EveLookalike}

\* values a plain str field can carry (Student.email, Listing.seller_email)
StrInputs == EmailStrInputs \cup {AlicePadded, BobGmail}

\* the payload emails where calls contend for one mailbox: that mailbox and
\* one foreign address
ConcInputs == {AliceMixed, EveLookalike}

\* OTPVerify.code: any 6-character string; the ones that can match a record
CodeInputs == {GenerateCode(n) : n \in GenInts}

\* NormalizeEmail and GenerateCode on the inputs above, computed once
NormalizedInputs == [raw \in StrInputs |-> NormalizeEmail(raw)]
GeneratedCodes == [n \in GenInts |-> GenerateCode(n)]
Norm(raw) == NormalizedInputs[raw]
Code(n) == IF n \in DOMAIN GeneratedCodes THEN GeneratedCodes[n] ELSE GenerateCode(n)

\* what the mail provider call can do: answer with a status, or fail in transport
ProviderOutcomes ==
    {[kind |-> "status", code |-> c] : c \in {200, 201, 500}}
        \cup {[kind |-> "exception"]}

(* ------------------------------ the store ------------------------------- *)

\* find_one's answer when no document matches
NoDoc == [id |-> 0]

\* OTPRecord.new(email, code): expires ttl_minutes after the current instant
OTPRecordNew(email, code, t) ==
    [email |-> email, code |-> code, expires_at |-> t + TtlMinutes, consumed |-> FALSE]

\* create_document's stored form of a record: the model's fields, the _id the
\* store assigns, and the implicit created_at / updated_at timestamps
StoredDocument(record, id, t) ==
    [id |-> id, email |-> record.email, code |-> record.code,
     expires_at |-> record.expires_at, consumed |-> record.consumed,
     created_at |-> t, updated_at |-> t]

\* an invalidation that deletes nothing
DeleteMany_KeepsAll(coll, email) == coll

\* an invalidation whose filter matches every document
DeleteMany_EveryEmail(coll, email) == {}

\* db["otp"].delete_many({"email": email})
DeleteMany(coll, email) == {r \in coll : r.email # email}

\* the insert performed by create_document("otp", record)
InsertOne(coll, record, id, t) == coll \cup {StoredDocument(record, id, t)}

\* the lookup filter without its "consumed": False part
ActiveMatches_IgnoreConsumed(coll, email, code) ==
    {r \in coll : r.email = email /\ r.code = code}

\* the documents matching {"email": email, "code": code, "consumed": False}
ActiveMatches(coll, email, code) ==
    {r \in coll : r.email = email /\ r.code = code /\ r.consumed = FALSE}

\* db["otp"].find_one(filter): the possible answers (any matching document,
\* the store fixes no order among several; NoDoc when none matches)
FindOne(coll, email, code) ==
    IF ActiveMatches(coll, email, code) = {} THEN {NoDoc}
    ELSE ActiveMatches(coll, email, code)

\* an update that sets updated_at alone
UpdateOne_NoConsume(coll, id, t) ==
    {IF r.id = id THEN [r EXCEPT !.updated_at = t] ELSE r : r \in coll}

\* an update whose filter matches every document
UpdateOne_EveryDocument(coll, id, t) ==
    {[r EXCEPT !.consumed = TRUE, !.updated_at = t] : r \in coll}

\* db["otp"].update_one({"_id": id}, {"$set": {"consumed": True, "updated_at": now}})
UpdateOneConsumed(coll, id, t) ==
    {IF r.id = id THEN [r EXCEPT !.consumed = TRUE, !.updated_at = t] ELSE r : r \in coll}

\* the expiry comparison with >= for >
IsExpired_AtBoundary(rec, t) == t >= rec.expires_at

\* the expiry comparison with a minute of grace
IsExpired_Late(rec, t) == t > rec.expires_at + 1

\* datetime.now(timezone.utc) > expires_at
IsExpired(rec, t) == t > rec.expires_at

(* ------------------------------ responses ------------------------------- *)

\* raise HTTPException(status_code=status, detail=detail)
HTTPException(status, detail) == [status |-> status, body |-> [detail |-> detail]]

DomainError == HTTPException(400, "Only @satiengg.in emails allowed")
SellerDomainError == HTTPException(400, "Only @satiengg.in sellers allowed")
DatabaseNotConfigured == HTTPException(500, "Database not configured")
InvalidCode == HTTPException(400, "Invalid code")
CodeExpired == HTTPException(400, "Code expired")
\* an exception that no handler catches: the framework's generic server error
InternalServerError == HTTPException(500, "Internal Server Error")

\* a response that carries dev_code whatever dispatch returned
RequestOtpResponse_AlwaysDevCode(email, code, delivered) ==
    [status |-> 200,
     body |-> [sent |-> TRUE, email |-> email, dev_code |-> code,
               delivery |-> IF delivered THEN "email" ELSE "dev"]]

\* the response dictionary request_otp builds after dispatch
RequestOtpResponse(email, code, delivered) ==
    IF ~delivered
    THEN [status |-> 200,
          body |-> [sent |-> TRUE, email |-> email, dev_code |-> code, delivery |-> "dev"]]
    ELSE [status |-> 200,
          body |-> [sent |-> TRUE, email |-> email, delivery |-> "email"]]

\* AuthResponse(email, name=email.split("@")[0], allowed, reason)
VerifyOtpResponse(email) ==
    [status |-> 200,
     body |-> [email |-> email, name |-> LocalPart(email), allowed |-> IsAllowed(email),
               reason |-> IF IsAllowed(email) THEN None ELSE "Only @satiengg.in allowed"]]

\* {"id": _id} with status 201
CreatedResponse(id) == [status |-> 201, body |-> [id |-> id]]

(* ------------------------------- dispatch ------------------------------- *)

\* _send_email without its try/except: a transport error propagates
SendEmail_NoExcept(key, outcome) ==
    IF ~key THEN [kind |-> "return", value |-> FALSE]
    ELSE IF outcome.kind = "exception" THEN [kind |-> "raise"]
    ELSE [kind |-> "return", value |-> outcome.code \in {200, 201}]

\* _send_email: what the call does for a given provider behaviour.
\* [kind |-> "return", value |-> b] or [kind |-> "raise"].
SendEmail(key, outcome) ==
    IF ~key THEN [kind |-> "return", value |-> FALSE]
    ELSE IF outcome.kind = "exception" THEN [kind |-> "return", value |-> FALSE]
    ELSE [kind |-> "return", value |-> outcome.code \in {200, 201}]

(* -------------------------------- state --------------------------------- *)

VARIABLES
    db,        \* TRUE iff the module-level db is not None
    apiKey,    \* TRUE iff RESEND_API_KEY is set (truthy)
    drawn,     \* the integer random.randint returns where a run fixes it (SpecCode)
    otp,       \* collection "otp": a set of stored documents
    student,   \* collection "student": the stored documents, in insertion order
    listing,   \* collection "listing": the stored documents, in insertion order
    now,       \* the current UTC instant, in minutes
    nextId,    \* the _id the store gives to the next otp document
    req,       \* the call that completed last: operation and payload
    resp,      \* the HTTP response of that call
    dispatch,  \* what _send_email did in that call (NotCalled if it did not run)
    calls,     \* flips at every completed call
    current,   \* per email: the code issued by the latest request_otp, if it persisted one
    stale,     \* per email: codes issued by a request_otp that a later request_otp followed
               \* (kept by SpecReissue alone)
    found,     \* per email: verify_otp outcomes that found a record since the latest request_otp
    okCount,   \* per otp _id: how many verify_otp calls returned success on that document
    pc,        \* per server process: the store operation its handler performs next
    loc        \* per server process: the handler's local variables

store == <<otp, student, listing>>
config == <<db, apiKey, drawn>>
observed == <<req, resp, dispatch, calls>>
history == <<current, stale, found, okCount>>
workers == <<pc, loc>>
vars == <<db, apiKey, drawn, otp, student, listing, now, nextId, req, resp, dispatch, calls,
          current, stale, found, okCount, pc, loc>>

Workers == 1..NumWorkers

\* the normalized forms of the emails the model feeds in
Emails == {Norm(raw) : raw \in StrInputs}

NoResponse == [status |-> 0, body |-> [detail |-> None]]
NoCall == [op |-> None, raw |-> <<>>, email |-> <<>>, code |-> <<>>]
\* no code is pending for an email
NoIssue == [code |-> <<>>, expires_at |-> -1]
\* _send_email was not called
NotCalled == [kind |-> "not_called"]
NoLocals == [raw |-> <<>>, email |-> <<>>, code |-> <<>>, rec |-> NoDoc]

\* no integer is fixed for the run: every call draws its own
NoDraw == 0

\* empty collections, no call made yet
InitStore ==
    /\ otp = {}
    /\ student = <<>>
    /\ listing = <<>>
    /\ now = 0
    /\ nextId = 1
    /\ req = NoCall
    /\ resp = NoResponse
    /\ dispatch = NotCalled
    /\ calls = FALSE
    /\ current = [e \in Emails |-> NoIssue]
    /\ stale = [e \in Emails |-> {}]
    /\ found = [e \in Emails |-> {}]
    /\ okCount = [i \in 1..MaxIds |-> 0]
    /\ pc = [w \in Workers |-> "idle"]
    /\ loc = [w \in Workers |-> NoLocals]

Init ==
    /\ db \in BOOLEAN
    /\ apiKey \in BOOLEAN
    /\ drawn = NoDraw
    /\ InitStore

(* ------------------------------- handlers ------------------------------- *)

\* request_otp that leaves the prior records in place when the insert fails
RequestOtpHandler_KeepsOnFailure(raw, n, insertOk, outcome) ==
    LET email == Norm(raw)
        cleared == DeleteMany(otp, email)
        record == OTPRecordNew(email, Code(n), now)
        sent == SendEmail(apiKey, outcome)
    IN  IF ~IsAllowed(email) THEN
            [stage |-> "rejected", otp |-> otp, nextId |-> nextId,
             dispatch |-> NotCalled, resp |-> DomainError]
        ELSE IF ~db THEN
            [stage |-> "unavailable", otp |-> otp, nextId |-> nextId,
             dispatch |-> NotCalled, resp |-> DatabaseNotConfigured]
        ELSE IF ~insertOk THEN
            [stage |-> "insert_failed", otp |-> otp, nextId |-> nextId,
             dispatch |-> NotCalled, resp |-> InternalServerError]
        ELSE
            [stage |-> IF sent.kind = "raise" THEN "dispatch_raised" ELSE "done",
             otp |-> InsertOne(cleared, record, nextId, now), nextId |-> nextId + 1,
             dispatch |-> [outcome |-> outcome, result |-> sent],
             resp |-> IF sent.kind = "raise" THEN InternalServerError
                      ELSE RequestOtpResponse(email, Code(n), sent.value)]

\* request_otp with the store check ahead of the domain check
RequestOtpHandler_StoreCheckFirst(raw, n, insertOk, outcome) ==
    LET email == Norm(raw)
        cleared == DeleteMany(otp, email)
        record == OTPRecordNew(email, Code(n), now)
        sent == SendEmail(apiKey, outcome)
    IN  IF ~db THEN
            [stage |-> "unavailable", otp |-> otp, nextId |-> nextId,
             dispatch |-> NotCalled, resp |-> DatabaseNotConfigured]
        ELSE IF ~IsAllowed(email) THEN
            [stage |-> "rejected", otp |-> otp, nextId |-> nextId,
             dispatch |-> NotCalled, resp |-> DomainError]
        ELSE IF ~insertOk THEN
            [stage |-> "insert_failed", otp |-> cleared, nextId |-> nextId,
             dispatch |-> NotCalled, resp |-> InternalServerError]
        ELSE
            [stage |-> IF sent.kind = "raise" THEN "dispatch_raised" ELSE "done",
             otp |-> InsertOne(cleared, record, nextId, now), nextId |-> nextId + 1,
             dispatch |-> [outcome |-> outcome, result |-> sent],
             resp |-> IF sent.kind = "raise" THEN InternalServerError
                      ELSE RequestOtpResponse(email, Code(n), sent.value)]

\* request_otp(payload) run to completion, for the drawn integer n, the store's
\* answer to the insert (insertOk) and the mail provider's behaviour (outcome):
\* the store and response it leaves, and how far it got.
RequestOtpHandler(raw, n, insertOk, outcome) ==
    LET email == Norm(raw)
        cleared == DeleteMany(otp, email)
        code == Code(n)
        record == OTPRecordNew(email, code, now)
        sent == SendEmail(apiKey, outcome)
        seen == [outcome |-> outcome, result |-> sent]
    IN  IF ~IsAllowed(email) THEN
            [stage |-> "rejected", otp |-> otp, nextId |-> nextId,
             dispatch |-> NotCalled, resp |-> DomainError]
        ELSE IF ~db THEN
            [stage |-> "unavailable", otp |-> otp, nextId |-> nextId,
             dispatch |-> NotCalled, resp |-> DatabaseNotConfigured]
        ELSE IF ~insertOk THEN
            [stage |-> "insert_failed", otp |-> cleared, nextId |-> nextId,
             dispatch |-> NotCalled, resp |-> InternalServerError]
        ELSE IF sent.kind = "raise" THEN
            [stage |-> "dispatch_raised",
             otp |-> InsertOne(cleared, record, nextId, now), nextId |-> nextId + 1,
             dispatch |-> seen, resp |-> InternalServerError]
        ELSE
            [stage |-> "done",
             otp |-> InsertOne(cleared, record, nextId, now), nextId |-> nextId + 1,
             dispatch |-> seen, resp |-> RequestOtpResponse(email, code, sent.value)]

\* verify_otp that raises "Code expired" without marking the record consumed
VerifyOtpHandler_ExpiredNotMarked(raw, code, rec) ==
    LET email == Norm(raw)
    IN  IF ~db THEN
            [stage |-> "unavailable", otp |-> otp, resp |-> DatabaseNotConfigured]
        ELSE IF rec = NoDoc THEN
            [stage |-> "not_found", otp |-> otp, resp |-> InvalidCode]
        ELSE IF IsExpired(rec, now) THEN
            [stage |-> "expired", otp |-> otp, resp |-> CodeExpired]
        ELSE
            [stage |-> "ok", otp |-> UpdateOneConsumed(otp, rec.id, now),
             resp |-> VerifyOtpResponse(email)]

\* verify_otp(payload) run to completion, rec being find_one's answer
VerifyOtpHandler(raw, code, rec) ==
    LET email == Norm(raw)
    IN  IF ~db THEN
            [stage |-> "unavailable", otp |-> otp, resp |-> DatabaseNotConfigured]
        ELSE IF rec = NoDoc THEN
            [stage |-> "not_found", otp |-> otp, resp |-> InvalidCode]
        ELSE IF IsExpired(rec, now) THEN
            [stage |-> "expired", otp |-> UpdateOneConsumed(otp, rec.id, now),
             resp |-> CodeExpired]
        ELSE
            [stage |-> "ok", otp |-> UpdateOneConsumed(otp, rec.id, now),
             resp |-> VerifyOtpResponse(email)]

\* create_document(collection, document) on a CRUD collection: the collection
\* and response it leaves; it raises when the store is unavailable or unreachable
CreateDocument(coll, raw, insertOk) ==
    IF ~db \/ ~insertOk THEN [coll |-> coll, resp |-> InternalServerError]
    ELSE [coll |-> Append(coll, [id |-> Len(coll) + 1, email |-> raw]),
          resp |-> CreatedResponse(Len(coll) + 1)]

\* create_student(student) run to completion
CreateStudentHandler(raw, insertOk) ==
    IF ~IsAllowed(Norm(raw)) THEN [coll |-> student, resp |-> DomainError]
    ELSE CreateDocument(student, raw, insertOk)

\* create_listing without its domain check
CreateListingHandler_NoCheck(raw, insertOk) == CreateDocument(listing, raw, insertOk)

\* create_listing(listing) run to completion
CreateListingHandler(raw, insertOk) ==
    IF ~IsAllowed(Norm(raw)) THEN [coll |-> listing, resp |-> SellerDomainError]
    ELSE CreateDocument(listing, raw, insertOk)

(* ------------------- actions: one handler per step ---------------------- *)

\* the history a request_otp call for email leaves, given how far it got;
\* superseded codes are remembered only where remember is set
RequestHistory(email, res, code, remember) ==
    IF res.stage \in {"rejected", "unavailable"} THEN UNCHANGED history
    ELSE /\ stale' = IF remember /\ current[email] # NoIssue
                     THEN [stale EXCEPT ![email] = @ \cup {current[email].code}]
                     ELSE stale
         /\ current' = [current EXCEPT ![email] =
                        IF res.stage = "insert_failed" THEN NoIssue
                        ELSE [code |-> code, expires_at |-> now + TtlMinutes]]
         /\ found' = [found EXCEPT ![email] = {}]
         /\ UNCHANGED okCount

RequestOtpCall(raw, n, insertOk, outcome, remember) ==
    LET res == RequestOtpHandler(raw, n, insertOk, outcome)
        email == Norm(raw)
    IN  /\ nextId <= MaxIds
        /\ otp' = res.otp
        /\ nextId' = res.nextId
        /\ resp' = res.resp
        /\ dispatch' = res.dispatch
        /\ req' = [op |-> "request_otp", raw |-> raw, email |-> email,
                   code |-> IF res.stage \in {"rejected", "unavailable"} THEN <<>> ELSE Code(n)]
        /\ calls' = ~calls
        /\ RequestHistory(email, res, Code(n), remember)
        /\ UNCHANGED <<config, student, listing, now, workers>>

RequestOtp(raw, n, insertOk, outcome) == RequestOtpCall(raw, n, insertOk, outcome, FALSE)

\* the same call, observed by a history that keeps the superseded codes
RequestOtpAgain(raw, n, insertOk, outcome) == RequestOtpCall(raw, n, insertOk, outcome, TRUE)

\* the history a verify_otp call leaves, given how far it got
VerifyHistory(email, code, rec, res) ==
    IF res.stage \in {"unavailable", "not_found"} THEN UNCHANGED history
    ELSE /\ found' = [found EXCEPT ![email] = @ \cup {[code |-> code, outcome |-> res.stage]}]
         /\ okCount' = IF res.stage = "ok" THEN [okCount EXCEPT ![rec.id] = @ + 1] ELSE okCount
         /\ UNCHANGED <<current, stale>>

VerifyOtp(raw, code) ==
    \E rec \in FindOne(otp, Norm(raw), code) :
        LET res == VerifyOtpHandler(raw, code, rec)
            email == Norm(raw)
        IN  /\ otp' = res.otp
            /\ resp' = res.resp
            /\ dispatch' = NotCalled
            /\ req' = [op |-> "verify_otp", raw |-> raw, email |-> email, code |-> code]
            /\ calls' = ~calls
            /\ VerifyHistory(email, code, rec, res)
            /\ UNCHANGED <<config, student, listing, now, nextId, workers>>

CreateStudent(raw, insertOk) ==
    LET res == CreateStudentHandler(raw, insertOk)
    IN  /\ Len(student) + Len(listing) < MaxDocs
        /\ student' = res.coll
        /\ resp' = res.resp
        /\ dispatch' = NotCalled
        /\ req' = [op |-> "create_student", raw |-> raw, email |-> Norm(raw), code |-> <<>>]
        /\ calls' = ~calls
        /\ UNCHANGED <<config, otp, listing, now, nextId, history, workers>>

CreateListing(raw, insertOk) ==
    LET res == CreateListingHandler(raw, insertOk)
    IN  /\ Len(student) + Len(listing) < MaxDocs
        /\ listing' = res.coll
        /\ resp' = res.resp
        /\ dispatch' = NotCalled
        /\ req' = [op |-> "create_listing", raw |-> raw, email |-> Norm(raw), code |-> <<>>]
        /\ calls' = ~calls
        /\ UNCHANGED <<config, otp, student, now, nextId, history, workers>>

\* time passes between calls
Tick ==
    /\ now < MaxTime
    /\ now' = now + TickStep
    /\ UNCHANGED <<config, store, nextId, observed, history, workers>>

\* What a request_otp call for this payload email consumes: a drawn integer and
\* the store's answer to the insert only if it passes both checks, the mail
\* provider's behaviour only if the insert succeeded and a credential is set.
NoOutcome == [kind |-> "none"]
DrawsFor(raw) == IF IsAllowed(Norm(raw)) /\ db THEN GenInts ELSE {NoDraw}
InsertAnswersFor(raw) == IF IsAllowed(Norm(raw)) /\ db THEN BOOLEAN ELSE {TRUE}
OutcomesFor(raw, insertOk) ==
    IF IsAllowed(Norm(raw)) /\ db /\ insertOk /\ apiKey THEN ProviderOutcomes ELSE {NoOutcome}

\* The OTP flow.  Handlers run one at a time, each to completion: every handler
\* is an `async def` without an await, so one server process never interleaves two.
Next ==
    \/ \E raw \in EmailStrInputs :
         \E n \in DrawsFor(raw), insertOk \in InsertAnswersFor(raw) :
           \E outcome \in OutcomesFor(raw, insertOk) : RequestOtp(raw, n, insertOk, outcome)
    \/ \E raw \in EmailStrInputs, code \in CodeInputs : VerifyOtp(raw, code)
    \/ Tick

Spec == Init /\ [][Next]_vars

\* The endpoints that write behind the domain check, one handler at a time.
NextCreate ==
    \/ \E raw \in ConcInputs :
         \E n \in DrawsFor(raw), insertOk \in InsertAnswersFor(raw) :
           \E outcome \in OutcomesFor(raw, insertOk) : RequestOtp(raw, n, insertOk, outcome)
    \/ \E raw \in StrInputs, insertOk \in BOOLEAN : CreateStudent(raw, insertOk)
    \/ \E raw \in StrInputs, insertOk \in BOOLEAN : CreateListing(raw, insertOk)

SpecCreate == Init /\ [][NextCreate]_vars

\* Repeated requests and verifications at one instant, one handler at a time,
\* with the codes that later requests superseded remembered in stale.
NextReissue ==
    \/ \E raw \in EmailStrInputs :
         \E n \in DrawsFor(raw), insertOk \in InsertAnswersFor(raw) :
           \E outcome \in OutcomesFor(raw, insertOk) : RequestOtpAgain(raw, n, insertOk, outcome)
    \/ \E raw \in EmailStrInputs, code \in CodeInputs : VerifyOtp(raw, code)

SpecReissue == Init /\ [][NextReissue]_vars

\* a minute passes between calls
TickMinute ==
    /\ now < MaxClock
    /\ now' = now + 1
    /\ UNCHANGED <<config, store, nextId, observed, history, workers>>

\* The OTP flow of one mailbox with the clock advancing minute by minute across
\* a record's expiry instant, one handler at a time.
NextClock ==
    \/ \E n \in DrawsFor(AliceMixed), insertOk \in InsertAnswersFor(AliceMixed) :
         \E outcome \in OutcomesFor(AliceMixed, insertOk) :
           RequestOtp(AliceMixed, n, insertOk, outcome)
    \/ \E code \in CodeInputs : VerifyOtp(AliceMixed, code)
    \/ TickMinute

SpecClock == Init /\ [][NextClock]_vars

\* _generate_code across its range: a run fixes the integer that randint
\* returns, with the store available and no mail credential, and request_otp
\* persists and returns the code rendered from it.
InitCode ==
    /\ db = TRUE
    /\ apiKey = FALSE
    /\ drawn \in DrawSamples
    /\ InitStore

NextCode == RequestOtp(AliceMixed, drawn, TRUE, NoOutcome)

SpecCode == InitCode /\ [][NextCode]_vars

(* ------------- actions: one store operation per step -------------------- *)

\* Several server processes share the store.  Each runs its handlers one at a
\* time; between two store operations of one handler the other processes may
\* perform theirs.  Every single store operation is atomic.

\* the handler of process w returns: req and resp show its call and response
Finish(w, op, raw, code, response, sent) ==
    /\ req' = [op |-> op, raw |-> raw, email |-> Norm(raw), code |-> code]
    /\ resp' = response
    /\ dispatch' = sent
    /\ calls' = ~calls
    /\ pc' = [pc EXCEPT ![w] = "idle"]
    /\ loc' = [loc EXCEPT ![w] = NoLocals]

\* inserts that handlers already in flight are still going to perform
PendingInserts == Cardinality({w \in Workers : pc[w] = "insert"})

\* request_otp up to and including delete_many
ReqInvalidate(w, raw) ==
    /\ pc[w] = "idle"
    /\ nextId + PendingInserts <= MaxIds
    /\ IF ~IsAllowed(Norm(raw))
       THEN Finish(w, "request_otp", raw, <<>>, DomainError, NotCalled) /\ otp' = otp
       ELSE IF ~db
       THEN Finish(w, "request_otp", raw, <<>>, DatabaseNotConfigured, NotCalled) /\ otp' = otp
       ELSE /\ otp' = DeleteMany(otp, Norm(raw))
            /\ pc' = [pc EXCEPT ![w] = "insert"]
            /\ loc' = [loc EXCEPT ![w] = [NoLocals EXCEPT !.raw = raw, !.email = Norm(raw)]]
            /\ UNCHANGED observed
    /\ UNCHANGED <<config, student, listing, now, nextId, history>>

\* request_otp from _generate_code to create_document
ReqInsert(w, n, insertOk) ==
    /\ pc[w] = "insert"
    /\ IF ~insertOk
       THEN /\ Finish(w, "request_otp", loc[w].raw, Code(n), InternalServerError, NotCalled)
            /\ UNCHANGED <<otp, nextId>>
       ELSE /\ otp' = InsertOne(otp, OTPRecordNew(loc[w].email, Code(n), now), nextId, now)
            /\ nextId' = nextId + 1
            /\ pc' = [pc EXCEPT ![w] = "send"]
            /\ loc' = [loc EXCEPT ![w].code = Code(n)]
            /\ UNCHANGED observed
    /\ UNCHANGED <<config, student, listing, now, history>>

\* request_otp from _send_email to its return
ReqSend(w, outcome) ==
    /\ pc[w] = "send"
    /\ LET sent == SendEmail(apiKey, outcome)
           seen == [outcome |-> outcome, result |-> sent]
       IN  Finish(w, "request_otp", loc[w].raw, loc[w].code,
                  IF sent.kind = "raise" THEN InternalServerError
                  ELSE RequestOtpResponse(loc[w].email, loc[w].code, sent.value),
                  seen)
    /\ UNCHANGED <<config, store, now, nextId, history>>

\* verify_otp up to and including find_one
VerFind(w, raw, code) ==
    /\ pc[w] = "idle"
    /\ IF ~db THEN Finish(w, "verify_otp", raw, code, DatabaseNotConfigured, NotCalled)
       ELSE \E rec \in FindOne(otp, Norm(raw), code) :
               IF rec = NoDoc THEN Finish(w, "verify_otp", raw, code, InvalidCode, NotCalled)
               ELSE /\ pc' = [pc EXCEPT ![w] = "mark"]
                    /\ loc' = [loc EXCEPT ![w] =
                                 [raw |-> raw, email |-> Norm(raw), code |-> code, rec |-> rec]]
                    /\ UNCHANGED observed
    /\ UNCHANGED <<config, store, now, nextId, history>>

\* verify_otp from the expiry check to its return: one update_one either way
VerMark(w) ==
    /\ pc[w] = "mark"
    /\ otp' = UpdateOneConsumed(otp, loc[w].rec.id, now)
    /\ IF IsExpired(loc[w].rec, now)
       THEN /\ Finish(w, "verify_otp", loc[w].raw, loc[w].code, CodeExpired, NotCalled)
            /\ okCount' = okCount
       ELSE /\ Finish(w, "verify_otp", loc[w].raw, loc[w].code,
                      VerifyOtpResponse(loc[w].email), NotCalled)
            /\ okCount' = [okCount EXCEPT ![loc[w].rec.id] = @ + 1]
    /\ UNCHANGED <<config, student, listing, now, nextId, current, stale, found>>

NextConc ==
    \/ \E w \in Workers, raw \in ConcInputs : ReqInvalidate(w, raw)
    \/ \E w \in Workers, n \in GenInts, insertOk \in BOOLEAN : ReqInsert(w, n, insertOk)
    \/ \E w \in Workers :
         \E outcome \in (IF apiKey THEN ProviderOutcomes ELSE {NoOutcome}) : ReqSend(w, outcome)
    \/ \E w \in Workers, raw \in ConcInputs, code \in CodeInputs : VerFind(w, raw, code)
    \/ \E w \in Workers : VerMark(w)
    \/ Tick

SpecConc == Init /\ [][NextConc]_vars

(* ------------------------------- claims --------------------------------- *)

\* the step completes a call of operation op
Completes(op) == calls' # calls /\ req'.op = op

\* the unconsumed documents of the store with this email and code
Unconsumed(email, code) ==
    {r \in otp : r.email = email /\ r.code = code /\ ~r.consumed}

\* C1: at any time, under any interleaving of the store operations of
\* request_otp and verify_otp calls, each email has at most one otp record that
\* is both unconsumed and unexpired.
C1_AtMostOneActive ==
    \A e \in Emails :
        Cardinality({r \in otp : r.email = e /\ ~r.consumed /\ ~(now > r.expires_at)}) <= 1

\* C2 as stated: once a later request_otp(e) has followed the request that
\* issued code c1 for e, verify_otp(e, c1) fails with "Invalid code", whatever
\* code the later request generated.
C2_StaleCodeInvalid ==
    (req.op = "verify_otp" /\ req.code \in stale[req.email]) => resp = InvalidCode

\* C2 amended: once a later request_otp(e) has followed the request that issued
\* code c1 for e, verify_otp(e, c1) fails with "Invalid code" unless the latest
\* request_otp(e) issued the same code c1 again.
C2_StaleCodeInvalidUnlessReissued ==
    (/\ req.op = "verify_otp"
     /\ req.code \in stale[req.email]
     /\ current[req.email].code # req.code) => resp = InvalidCode

C2_Witness ==
    /\ req.op = "verify_otp"
    /\ req.code \in stale[req.email]
    /\ current[req.email] # NoIssue
    /\ current[req.email].code # req.code
    /\ resp = InvalidCode

\* C3: no otp document has verify_otp return success more than once, and once
\* verify_otp(e, code) has succeeded, every later verify_otp(e, code) with no
\* request_otp(e) in between fails with "Invalid code".
C3_VerifyAtMostOnce ==
    /\ [](\A i \in DOMAIN okCount : okCount[i] <= 1)
    /\ [][(/\ Completes("verify_otp")
           /\ [code |-> req'.code, outcome |-> "ok"] \in found[req'.email])
          => resp' = InvalidCode]_vars

C3_Witness ==
    /\ req.op = "verify_otp"
    /\ [code |-> req.code, outcome |-> "ok"] \in found[req.email]
    /\ resp = InvalidCode

\* C4: a verify_otp that finds a matching unconsumed record past its expires_at
\* marks it consumed and fails with "Code expired"; every later verify_otp(e, code)
\* for that record fails with "Invalid code".
C4_ExpiredBurnsCode ==
    /\ [][(/\ Completes("verify_otp")
           /\ Unconsumed(req'.email, req'.code) # {}
           /\ \A r \in Unconsumed(req'.email, req'.code) : r.expires_at < now)
          => /\ resp' = CodeExpired
             /\ \E r \in Unconsumed(req'.email, req'.code) :
                    \E r2 \in otp' : r2.id = r.id /\ r2.consumed]_vars
    /\ [][(/\ Completes("verify_otp")
           /\ [code |-> req'.code, outcome |-> "expired"] \in found[req'.email])
          => resp' = InvalidCode]_vars

C4_Witness ==
    /\ req.op = "verify_otp"
    /\ [code |-> req.code, outcome |-> "expired"] \in found[req.email]
    /\ resp = InvalidCode

\* C5: for an email whose normalized form does not end with "@satiengg.in",
\* request_otp, create_student and create_listing fail with a 400 domain error
\* and leave every collection as it was.
C5_DisallowedRejected ==
    [][(/\ calls' # calls
        /\ req'.op \in {"request_otp", "create_student", "create_listing"}
        /\ ~EndsWith(NormalizedInputs[req'.raw], <<"@">> \o EMAIL_DOMAIN))
       => /\ resp'.status = 400
          /\ resp' = IF req'.op = "create_listing" THEN SellerDomainError ELSE DomainError
          /\ UNCHANGED <<otp, student, listing>>]_vars

C5_Witness ==
    /\ req.op = "request_otp"
    /\ req.raw = EveLookalike
    /\ resp = DomainError
    /\ otp # {}

\* C6: a successful request_otp response has sent = true; when dispatch returned
\* false it carries delivery = "dev" and dev_code, the code of the record just
\* persisted; when dispatch returned true it carries delivery = "email" and no dev_code.
C6_ResponseShape ==
    (req.op = "request_otp" /\ resp.status = 200) =>
        /\ resp.body.sent = TRUE
        /\ resp.body.email = req.email
        /\ dispatch.result.kind = "return"
        /\ ("dev_code" \in DOMAIN resp.body) <=> (dispatch.result.value = FALSE)
        /\ IF dispatch.result.value = FALSE
           THEN /\ DOMAIN resp.body = {"sent", "email", "dev_code", "delivery"}
                /\ resp.body.delivery = "dev"
                /\ \E r \in otp : /\ r.id = nextId - 1
                                  /\ r.email = resp.body.email
                                  /\ r.code = resp.body.dev_code
           ELSE /\ DOMAIN resp.body = {"sent", "email", "delivery"}
                /\ resp.body.delivery = "email"

C6_Witness ==
    /\ req.op = "request_otp"
    /\ resp.status = 200
    /\ dispatch.result.value = TRUE
    /\ resp.body.delivery = "email"

\* C7: verify_otp(e, c) for the code c that the latest request_otp(e) issued,
\* not later than the record's expires_at, with no request_otp(e) since and no
\* earlier verify_otp(e, c) that found the record, succeeds with allowed = true.
C7_FreshCodeVerifies ==
    [][(/\ Completes("verify_otp")
        /\ current[req'.email] # NoIssue
        /\ current[req'.email].code = req'.code
        /\ now <= current[req'.email].expires_at
        /\ \A f \in found[req'.email] : f.code # req'.code)
       => /\ resp'.status = 200
          /\ resp'.body.allowed = TRUE]_vars

C7_Witness ==
    /\ req.op = "verify_otp"
    /\ resp.status = 200
    /\ resp.body.allowed = TRUE
    /\ current[req.email].code = req.code
    /\ now = current[req.email].expires_at

\* C8: every otp record's email ends with "@satiengg.in", and every successful
\* verify_otp response has allowed = true and no reason.
C8_OnlyAllowedVerified ==
    /\ \A r \in otp : EndsWith(r.email, <<"@">> \o EMAIL_DOMAIN)
    /\ (req.op = "verify_otp" /\ resp.status = 200) =>
           /\ resp.body.allowed = TRUE
           /\ resp.body.reason = None
           /\ EndsWith(resp.body.email, <<"@">> \o EMAIL_DOMAIN)

C8_Witness ==
    /\ req.op = "verify_otp"
    /\ resp.status = 200
    /\ resp.body.allowed = TRUE
    /\ otp # {}

\* the three ways verify_otp(email, code) can have nothing to find
NoRecordForEmail(email) == \A r \in otp : r.email # email
OnlyOtherCodes(email, code) ==
    /\ \E r \in otp : r.email = email
    /\ \A r \in otp : r.email = email => r.code # code
AlreadyConsumed(email, code) ==
    /\ \E r \in otp : r.email = email /\ r.code = code
    /\ \A r \in otp : (r.email = email /\ r.code = code) => r.consumed

\* C9: with the store available, verify_otp answers with the one response
\* 400 "Invalid code" and leaves the store as it was when no record exists for
\* the email, when the email's records carry another code, and when the matching
\* record is already consumed.
C9_InvalidCodeUniform ==
    [][(/\ Completes("verify_otp")
        /\ db
        /\ \/ NoRecordForEmail(req'.email)
           \/ OnlyOtherCodes(req'.email, req'.code)
           \/ AlreadyConsumed(req'.email, req'.code))
       => /\ resp' = InvalidCode
          /\ UNCHANGED <<otp, student, listing>>]_vars

C9_Witness ==
    /\ req.op = "verify_otp"
    /\ resp = InvalidCode
    /\ AlreadyConsumed(req.email, req.code)

\* C10: whenever request_otp reaches dispatch, _send_email returns (it never
\* raises), and returns true only for a configured credential and a 200/201
\* answer; request_otp then succeeds with sent = true and the new record is in
\* the store, unconsumed, under the issued code.
C10_DispatchNeverFails ==
    (dispatch # NotCalled) =>
        /\ req.op = "request_otp"
        /\ dispatch.result.kind = "return"
        /\ dispatch.result.value =
               (/\ apiKey
                /\ dispatch.outcome.kind = "status"
                /\ dispatch.outcome.code \in {200, 201})
        /\ resp.status = 200
        /\ resp.body.sent = TRUE
        /\ \E r \in otp : /\ r.id = nextId - 1
                          /\ r.email = req.email
                          /\ r.code = req.code
                          /\ ~r.consumed

C10_Witness ==
    /\ dispatch # NotCalled
    /\ dispatch.outcome.kind = "exception"
    /\ dispatch.result = [kind |-> "return", value |-> FALSE]
    /\ resp.status = 200
    /\ resp.body.delivery = "dev"

\* the number a string of decimal digits denotes (-1 if a character is no digit)
RECURSIVE DigitsValue(_)
DigitsValue(s) ==
    IF s = <<>> THEN 0
    ELSE LET last == s[Len(s)]
             rest == DigitsValue(SubSeq(s, 1, Len(s) - 1))
         IN  IF rest < 0 \/ ~(\E d \in 1..10 : DigitChars[d] = last) THEN -1
             ELSE 10 * rest + (CHOOSE d \in 1..10 : DigitChars[d] = last) - 1

\* exactly six characters, each a decimal digit
SixDigits(s) ==
    /\ Len(s) = 6
    /\ \A i \in 1..Len(s) : s[i] \in {"0","1","2","3","4","5","6","7","8","9"}

\* C11: for every integer that randint(0, 999999) returns, the code
\* request_otp persists (and returns as dev_code) is a string of exactly 6
\* decimal digits that denotes the integer, zero-padded on the left.
C11_SixDigitCodes ==
    /\ \A r \in otp : SixDigits(r.code) /\ DigitsValue(r.code) = drawn
    /\ (req.op = "request_otp" /\ resp.status = 200) =>
           /\ SixDigits(resp.body.dev_code)
           /\ \E r \in otp : r.code = resp.body.dev_code

C11_Witness ==
    /\ drawn = 0
    /\ \E r \in otp : r.code = <<"0","0","0","0","0","0">>
    /\ resp.status = 200
    /\ resp.body.dev_code = <<"0","0","0","0","0","0">>

\* C12: with db None, request_otp for an allowed email and verify_otp for any
\* email fail with 500 "Database not configured", touch no collection and call
\* no dispatch; request_otp for a disallowed email still fails with the 400
\* domain error, its domain check coming first.
C12_StoreUnavailable ==
    [][(/\ calls' # calls
        /\ req'.op \in {"request_otp", "verify_otp"}
        /\ ~db)
       => /\ resp' = IF req'.op = "request_otp" /\ ~EndsWith(req'.email, <<"@">> \o EMAIL_DOMAIN)
                     THEN DomainError
                     ELSE DatabaseNotConfigured
          /\ dispatch' = NotCalled
          /\ UNCHANGED <<otp, student, listing, nextId>>]_vars

C12_Witness ==
    /\ ~db
    /\ req.op = "request_otp"
    /\ req.raw = EveLookalike
    /\ resp = DomainError

\* C13: every stored student document's email and every stored listing
\* document's seller_email, as stored, ends with "@satiengg.in".
C13_StoredEmailsAllowed ==
    /\ \A i \in 1..Len(student) : EndsWith(student[i].email, <<"@">> \o EMAIL_DOMAIN)
    /\ \A i \in 1..Len(listing) : EndsWith(listing[i].email, <<"@">> \o EMAIL_DOMAIN)

\* C14: when verify_otp calls with the same email and code interleave at the
\* granularity of store operations, at most one of them returns success for
\* any one otp document.
C14_ConcurrentVerifyOnce ==
    \A r \in otp : okCount[r.id] <= 1

\* C15: when verify_otp(e, old_code) interleaves with request_otp(e), no
\* verify_otp returns success for a document that is no longer in the store at
\* the moment the call marks it consumed.
C15_NoSuccessOnDeleted ==
    [][\A w \in Workers :
         (/\ pc[w] = "mark"
          /\ pc'[w] = "idle"
          /\ resp'.status = 200)
         => \E r \in otp : r.id = loc[w].rec.id]_vars

\* the step removes every record of email e and adds one new, unconsumed record of e
DeletesAndInsertsOne(e) ==
    \E n \in otp' :
        /\ \A r \in otp : r.id # n.id
        /\ n.email = e
        /\ ~n.consumed
        /\ otp' = {r \in otp : r.email # e} \cup {n}

\* the step removes every record of email e and adds none
DeletesOnly(e) == otp' = {r \in otp : r.email # e}

\* the step sets consumed on one unconsumed record of (e, c) and changes nothing
\* else but that record's updated_at
MarksMatched(e, c) ==
    \E r \in otp, r2 \in otp' :
        /\ r.email = e /\ r.code = c /\ ~r.consumed
        /\ r2.id = r.id
        /\ r2.consumed
        /\ otp' \ {r2} = otp \ {r}

\* no step changes email, code or expires_at of a record or resets consumed
FieldsKept ==
    \A r \in otp, r2 \in otp' :
        r2.id = r.id => /\ r2.email = r.email
                        /\ r2.code = r.code
                        /\ r2.expires_at = r.expires_at
                        /\ (r.consumed => r2.consumed)

\* a request_otp / verify_otp call that got as far as writing has the effect named
EffectsOfCalls ==
    /\ (Completes("request_otp") /\ resp'.status = 200) => DeletesAndInsertsOne(req'.email)
    /\ (Completes("verify_otp") /\ (resp'.status = 200 \/ resp' = CodeExpired))
           => MarksMatched(req'.email, req'.code)

\* marking a consumed record again leaves it consumed and otherwise as it was
RemarkKeeps ==
    \A r \in otp : r.consumed =>
        \A r2 \in UpdateOneConsumed(otp, r.id, now) :
            r2.id = r.id => r2 = [r EXCEPT !.updated_at = now]

\* C16 as stated: the otp collection changes only by a request_otp(e) that
\* deletes all records of e and inserts one unconsumed record, or by a
\* verify_otp that sets consumed on the record it matched; consumed is monotone,
\* email/code/expires_at never change, a consumed record is never matched
\* again, and re-marking a consumed record leaves it consumed.
C16_OnlyTheseChanges ==
    /\ [][(otp' # otp) =>
             \/ Completes("request_otp") /\ DeletesAndInsertsOne(req'.email)
             \/ Completes("verify_otp") /\ MarksMatched(req'.email, req'.code)]_vars
    /\ [][FieldsKept /\ EffectsOfCalls]_vars
    /\ []RemarkKeeps

\* C16 amended: as above, and a request_otp(e) whose insert fails deletes all
\* records of e and inserts none.
C16_OnlyTheseChangesOrFailedInsert ==
    /\ [][(otp' # otp) =>
             \/ Completes("request_otp") /\ DeletesAndInsertsOne(req'.email)
             \/ /\ Completes("request_otp")
                /\ resp' = InternalServerError
                /\ DeletesOnly(req'.email)
             \/ Completes("verify_otp") /\ MarksMatched(req'.email, req'.code)]_vars
    /\ [][FieldsKept /\ EffectsOfCalls]_vars
    /\ []RemarkKeeps

C16_Witness ==
    /\ req.op = "verify_otp"
    /\ resp = CodeExpired
    /\ \E r \in otp : r.email = req.email /\ r.code = req.code /\ r.consumed
    /\ \E r \in otp : r.email # req.email /\ ~r.consumed

\* C17: a record's expires_at is the instant of its creation plus 10 minutes,
\* and verify_otp on a matching unconsumed record fails with "Code expired"
\* exactly when the current time is strictly greater than expires_at; at a
\* current time equal to or earlier than expires_at it succeeds.
C17_ExpiryBoundary ==
    /\ [][(Completes("request_otp") /\ resp'.status = 200)
          => \E r \in otp' : /\ r.id = nextId
                              /\ r.expires_at = now + 10]_vars
    /\ [][(Completes("verify_otp") /\ Unconsumed(req'.email, req'.code) # {})
          => \A r \in Unconsumed(req'.email, req'.code) :
                /\ (now > r.expires_at) <=> (resp' = CodeExpired)
                /\ (now <= r.expires_at) <=> (resp'.status = 200)]_vars

C17_Witness ==
    /\ req.op = "verify_otp"
    /\ resp = CodeExpired
    /\ \E r \in otp : /\ r.email = req.email
                      /\ r.code = req.code
                      /\ r.consumed
                      /\ now = r.expires_at + 1

\* the otp records of the other emails
RecordsOfOthers(coll, email) == {r \in coll : r.email # email}

\* C18: request_otp(e) and verify_otp(e, c) never delete, insert or modify an
\* otp record whose email differs from the normalized e, and a pending code of
\* another email stays in the store, unconsumed, whatever is done on e, and
\* verifies within its window.
C18_PerEmailIsolation ==
    /\ [][(calls' # calls /\ req'.op \in {"request_otp", "verify_otp"})
          => RecordsOfOthers(otp', req'.email) = RecordsOfOthers(otp, req'.email)]_vars
    /\ [](\A e \in Emails :
             (/\ current[e] # NoIssue
              /\ \A f \in found[e] : f.code # current[e].code)
             => \E r \in otp : /\ r.email = e
                               /\ r.code = current[e].code
                               /\ r.expires_at = current[e].expires_at
                               /\ ~r.consumed)
    /\ [][(/\ Completes("verify_otp")
           /\ \E r \in otp, r2 \in otp :
                 /\ r.email = req'.email /\ r.code = req'.code /\ ~r.consumed
                 /\ now <= r.expires_at
                 /\ r2.email # req'.email /\ r2.id > r.id)
          => resp'.status = 200]_vars

C18_Witness ==
    /\ req.op = "verify_otp"
    /\ resp.status = 200
    /\ \E r \in otp, r2 \in otp :
          /\ r.email = req.email /\ r.code = req.code /\ r.consumed
          /\ r2.email # req.email /\ r2.id > r.id

\* C19: a request_otp that passed its checks either inserts and dispatches, or,
\* its insert failing after the invalidation, fails with a server error without
\* dispatching and leaves the email's prior records deleted: the email then has
\* no otp record, and a verify_otp of its previously pending code fails.
C19_FailedInsertLeavesNone ==
    /\ [][(/\ Completes("request_otp")
           /\ db
           /\ EndsWith(req'.email, <<"@">> \o EMAIL_DOMAIN))
          => \/ /\ resp'.status = 200
                /\ dispatch' # NotCalled
                /\ DeletesAndInsertsOne(req'.email)
             \/ /\ resp' = InternalServerError
                /\ dispatch' = NotCalled
                /\ nextId' = nextId
                /\ DeletesOnly(req'.email)]_vars
    /\ []((req.op = "request_otp" /\ resp = InternalServerError)
             => \A r \in otp : r.email # req.email)
    /\ [][(/\ Completes("verify_otp")
           /\ req.op = "request_otp"
           /\ resp = InternalServerError
           /\ req'.email = req.email)
          => resp' = InvalidCode]_vars

C19_Witness ==
    /\ req.op = "request_otp"
    /\ resp = InternalServerError
    /\ dispatch = NotCalled
    /\ nextId > 1
    /\ otp = {}

====
